---- MODULE Spec2Model ----
(***************************************************************************)
(* Verification model of the utility layer of rasa-for-botfront:           *)
(*   - rasa/graph_components/converters/nlu_message_converter.py           *)
(*       NLUMessageConverter.convert_user_message                          *)
(*   - rasa/utils/common.py                                                *)
(*       TempDirectoryPath, update_existing_keys, run_in_loop,             *)
(*       copy_directory                                                    *)
(* Each operation has its own specification (SpecConvert, SpecUpdate,      *)
(* SpecTemp, SpecLoop, SpecCopy); the variables of the other operations    *)
(* stay at their idle values.                                              *)
(*                                                                         *)
(* Python values: Optional[X] is a sequence of length 0 (None) or 1, so    *)
(* that None never has to be compared with a value of another shape.       *)
(* A dict is a function from its key set to its values.                    *)
(***************************************************************************)
EXTENDS Integers, Sequences, FiniteSets, TLC

VARIABLES
    \* ---- NLUMessageConverter.convert_user_message
    cPc,        \* "call" before the call, "returned" after it
    message,    \* the argument: None or Some(UserMessage), as the caller sees it
    message0,   \* the argument as it was when the call was made
    cRet,       \* the returned List[Message]
    \* ---- update_existing_keys
    uPc,        \* "call" | "returned"
    heap,       \* object store: reference -> dict
    original,   \* reference passed as `original`
    updates,    \* reference passed as `updates`
    updated,    \* reference returned (NoRef before the return)
    heap0,      \* the object store when the call was made
    \* ---- TempDirectoryPath
    tPc,        \* "before" the with statement, in its "body", or "left"
    tDir,       \* the directory at the path: None or Some(tree)
    tDirAtExit, \* the directory when the block was left
    tRaised,    \* the exception raised inside the block: None or Some(e)
    tSeen,      \* the exception the caller of the with statement sees
    \* ---- copy_directory
    dPc,        \* "call" | "returned"
    source,     \* the source directory
    destination,  \* the destination directory
    destination0, \* the destination when the call was made
    dErr,       \* the exception copy_directory raised, or NoError
    \* ---- run_in_loop
    lPc,        \* "call" | "run_f" | "gather" | "returned" | "raised"
    tasks,      \* the loop's tasks: task id -> "unused" | "pending" | "done" | "failed"
    fResult,    \* what the awaitable f evaluated to (NoResult until it finishes)
    result,     \* the local variable `result`
    pending,    \* the local variable `pending`: the tasks gathered
    lRet        \* the value run_in_loop returned (NoResult until it returns)

convVars == <<cPc, message, message0, cRet>>
updVars  == <<uPc, heap, original, updates, updated, heap0>>
tempVars == <<tPc, tDir, tDirAtExit, tRaised, tSeen>>
copyVars == <<dPc, source, destination, destination0, dErr>>
loopVars == <<lPc, tasks, fResult, result, pending, lRet>>
vars     == <<convVars, updVars, tempVars, copyVars, loopVars>>

None    == << >>
Some(v) == <<v>>

-----------------------------------------------------------------------------
(* NLUMessageConverter                                                      *)

NumTexts == 4
NumIds   == 3
NumMetaKeys == 2

\* Raw external input (spec section 6): {text, message_id, metadata: mapping}.
Texts     == 1..NumTexts
MessageIds == 1..NumIds
MetaKeys   == 1..NumMetaKeys
MetaVals   == {0, 1}
Metadatas  == UNION {[K -> MetaVals] : K \in SUBSET MetaKeys}

\* rasa.core.channels.channel.UserMessage: the three attributes the converter reads.
UserMessage == [text : Texts, message_id : MessageIds, metadata : Metadatas]

\* rasa.shared.nlu.training_data.message.Message(data=data): an open key -> value
\* record holding a copy of `data`.
Message(data) == [data |-> data]

\* Python truth value of the argument in `if message:`.  UserMessage defines
\* neither __bool__ nor __len__, so only None is falsy.
Truthy(m) == m # None

\* Faulty variant: the None branch also wraps the attributes it has into a Message.
convert_user_message_noguard(m) ==
    IF Truthy(m)
    THEN [ret |-> <<Message([text       |-> m[1].text,
                             message_id |-> m[1].message_id,
                             metadata   |-> m[1].metadata])>>,
          arg |-> m]
    ELSE [ret |-> <<Message([text |-> 0, message_id |-> 0, metadata |-> << >>])>>,
          arg |-> m]

\* Faulty variant: message_id taken from the text attribute.
convert_user_message_swapped(m) ==
    IF Truthy(m)
    THEN [ret |-> <<Message([text       |-> m[1].text,
                             message_id |-> m[1].text,
                             metadata   |-> m[1].metadata])>>,
          arg |-> m]
    ELSE [ret |-> << >>, arg |-> m]

\* convert_user_message(message): the returned list and the argument afterwards.
convert_user_message(m) ==
    IF Truthy(m)
    THEN LET data == [text       |-> m[1].text,
                      message_id |-> m[1].message_id,
                      metadata   |-> m[1].metadata]
         IN  [ret |-> <<Message(data)>>, arg |-> m]
    ELSE [ret |-> << >>, arg |-> m]

ConvInit ==
    /\ cPc = "call"
    /\ message \in {None} \cup {Some(u) : u \in UserMessage}
    /\ message0 = message
    /\ cRet = << >>

ConvIdle ==
    /\ cPc = "idle"
    /\ message = None
    /\ message0 = None
    /\ cRet = << >>

Convert ==
    /\ cPc = "call"
    /\ LET r == convert_user_message(message)
       IN  /\ cRet' = r.ret
           /\ message' = r.arg
    /\ cPc' = "returned"
    /\ UNCHANGED <<message0, updVars, tempVars, copyVars, loopVars>>

-----------------------------------------------------------------------------
(* update_existing_keys                                                     *)

MaxKeys == 3
MaxVal  == 2

Keys   == 1..MaxKeys
Values == 1..MaxVal
Dicts  == UNION {[K -> Values] : K \in SUBSET Keys}

EmptyDict == << >>
NoRef == 0
Refs  == {1, 2, 3}

\* All iteration orders of a key set (dict insertion orders).
Orders(S) ==
    {s \in [1..Cardinality(S) -> S] : \A i, j \in 1..Cardinality(S) : s[i] = s[j] => i = j}

\* Faulty variant: `updated = original` (no copy).
DictCopyAlias(h, r) == [h |-> h, ref |-> r]

\* original.copy(): a new dict object with the same items.
DictCopy(h, r) == [h |-> [h EXCEPT ![3] = h[r]], ref |-> 3]

\* Faulty variant: the membership test dropped, every update is written.
UpdateItemAlways(d, k, v) ==
    [x \in (DOMAIN d) \cup {k} |-> IF x = k THEN v ELSE d[x]]

\* Loop body: `if k in updated: updated[k] = v`.
UpdateItem(d, k, v) == IF k \in DOMAIN d THEN [d EXCEPT ![k] = v] ELSE d

\* for k, v in updates.items(): ... over the items in order `ord`, from index i.
\* The items are read from the live `updates` object of the store.
RECURSIVE UpdateLoop(_, _, _, _, _)
UpdateLoop(h, upd, src, ord, i) ==
    IF i > Len(ord) THEN h
    ELSE LET k == ord[i]
             v == h[src][k]
         IN  UpdateLoop([h EXCEPT ![upd] = UpdateItem(h[upd], k, v)], upd, src, ord, i + 1)

\* update_existing_keys(original, updates): the store afterwards and the reference returned.
update_existing_keys(h, orig, upds, ord) ==
    LET c == DictCopy(h, orig)
    IN  [h |-> UpdateLoop(c.h, c.ref, upds, ord, 1), ref |-> c.ref]

UpdInit ==
    /\ uPc = "call"
    /\ \E d1, d2 \in Dicts : heap = [r \in Refs |-> IF r = 1 THEN d1 ELSE IF r = 2 THEN d2 ELSE EmptyDict]
    /\ original = 1
    /\ updates \in {1, 2}
    /\ updated = NoRef
    /\ heap0 = heap

UpdIdle ==
    /\ uPc = "idle"
    /\ heap = [r \in Refs |-> EmptyDict]
    /\ original = 1
    /\ updates = 2
    /\ updated = NoRef
    /\ heap0 = heap

Update ==
    /\ uPc = "call"
    /\ \E ord \in Orders(DOMAIN heap[updates]) :
          LET r == update_existing_keys(heap, original, updates, ord)
          IN  /\ heap' = r.h
              /\ updated' = r.ref
    /\ uPc' = "returned"
    /\ UNCHANGED <<original, updates, heap0, convVars, tempVars, copyVars, loopVars>>

-----------------------------------------------------------------------------
(* Directories: a directory is a tree, a function from entry names to       *)
(* entries; an entry is absent, a file with its data, or a subdirectory     *)
(* with its (abstracted) subtree.                                           *)

NumNames    == 2
NumContents == 2

Names   == 1..NumNames
Absent  == [kind |-> "absent", content |-> 0]
Entries == {Absent} \cup [kind : {"file", "dir"}, content : 1..NumContents]
Trees   == [Names -> Entries]
EmptyTree == [n \in Names |-> Absent]
Listing(t) == {n \in Names : t[n] # Absent}

-----------------------------------------------------------------------------
(* TempDirectoryPath                                                        *)

NumExcs == 2
Excs == 1..NumExcs

\* os.path.exists(self)
PathExists(d) == d # None

\* shutil.rmtree(self): the directory and everything below it is removed.
RmTree(d) == None

\* Faulty variant: cleanup only when the block ended without an exception.
TempExitSkipOnError(d, exc) ==
    [dir |-> IF exc = None /\ PathExists(d) THEN RmTree(d) ELSE d, ret |-> FALSE]

\* Faulty variant: __exit__ returns True.
TempExitSuppress(d, exc) ==
    [dir |-> IF PathExists(d) THEN RmTree(d) ELSE d, ret |-> TRUE]

\* TempDirectoryPath.__exit__(_exc, _value, _tb): the directory afterwards and
\* the truth value of what it returns (None: the exception is not suppressed).
TempExit(d, exc) ==
    [dir |-> IF PathExists(d) THEN RmTree(d) ELSE d, ret |-> FALSE]

TempInit ==
    /\ tPc = "before"
    /\ tDir \in {None} \cup {Some(t) : t \in Trees}
    /\ tDirAtExit = None
    /\ tRaised = None
    /\ tSeen = None

TempIdle ==
    /\ tPc = "idle"
    /\ tDir = None
    /\ tDirAtExit = None
    /\ tRaised = None
    /\ tSeen = None

\* __enter__: returns self, the block starts.
TempEnter ==
    /\ tPc = "before"
    /\ tPc' = "body"
    /\ UNCHANGED <<tDir, tDirAtExit, tRaised, tSeen, convVars, updVars, copyVars, loopVars>>

\* The block writes, replaces or removes an entry of the directory.
TempBodyWrite ==
    /\ tPc = "body"
    /\ tDir # None
    /\ \E n \in Names, e \in Entries : tDir' = Some([tDir[1] EXCEPT ![n] = e])
    /\ UNCHANGED <<tPc, tDirAtExit, tRaised, tSeen, convVars, updVars, copyVars, loopVars>>

\* The block removes or moves away the directory itself.
TempBodyRemoveDir ==
    /\ tPc = "body"
    /\ tDir # None
    /\ tDir' = None
    /\ UNCHANGED <<tPc, tDirAtExit, tRaised, tSeen, convVars, updVars, copyVars, loopVars>>

\* The block creates the directory.
TempBodyMakeDir ==
    /\ tPc = "body"
    /\ tDir = None
    /\ tDir' = Some(EmptyTree)
    /\ UNCHANGED <<tPc, tDirAtExit, tRaised, tSeen, convVars, updVars, copyVars, loopVars>>

\* The block ends, normally (exc = None) or raising exc: the with statement
\* calls __exit__ and re-raises exc unless __exit__ returned a true value.
TempLeave ==
    /\ tPc = "body"
    /\ \E exc \in {None} \cup {Some(e) : e \in Excs} :
          LET r == TempExit(tDir, exc)
          IN  /\ tDir' = r.dir
              /\ tRaised' = exc
              /\ tSeen' = IF exc # None /\ ~r.ret THEN exc ELSE None
    /\ tDirAtExit' = tDir
    /\ tPc' = "left"
    /\ UNCHANGED <<convVars, updVars, copyVars, loopVars>>

-----------------------------------------------------------------------------
(* copy_directory                                                           *)

NoError == "none"

\* A directory path: whether its parent exists, whether it exists, its tree.
DirState(parent, exists, tree) == [parent |-> parent, exists |-> exists, tree |-> tree]
DirStates ==
    {DirState(FALSE, FALSE, EmptyTree), DirState(TRUE, FALSE, EmptyTree)}
        \cup {DirState(TRUE, TRUE, t) : t \in Trees}

\* destination.mkdir(parents=True)
MkdirParents(d) == DirState(TRUE, TRUE, d.tree)

\* list(path.glob("*")): every entry of the directory, none when it does not exist.
Glob(d) == IF d.exists THEN Listing(d.tree) ELSE {}

\* shutil.copytree(item, destination / item.name)
CopyTree(t, n, e) == [t EXCEPT ![n] = [kind |-> "dir", content |-> e.content]]

\* shutil.copy2(item, destination / item.name)
Copy2(t, n, e) == [t EXCEPT ![n] = [kind |-> "file", content |-> e.content]]

\* Loop body: `if item.is_dir(): copytree(...) else: copy2(...)`.
CopyItem(t, n, e) == IF e.kind = "dir" THEN CopyTree(t, n, e) ELSE Copy2(t, n, e)

\* for item in source.glob("*"): ... over the items in order `ord`, from index i.
RECURSIVE CopyLoop(_, _, _, _)
CopyLoop(t, src, ord, i) ==
    IF i > Len(ord) THEN t
    ELSE CopyLoop(CopyItem(t, ord[i], src.tree[ord[i]]), src, ord, i + 1)

\* Faulty variant: the emptiness check of the destination is missing.
copy_directory_nocheck(src, dst, ord) ==
    LET d1 == IF ~dst.exists THEN MkdirParents(dst) ELSE dst
    IN  [dst |-> [d1 EXCEPT !.tree = CopyLoop(d1.tree, src, ord, 1)], err |-> NoError]

\* copy_directory(source, destination): the destination afterwards and the
\* exception raised.
copy_directory(src, dst, ord) ==
    LET d1 == IF ~dst.exists THEN MkdirParents(dst) ELSE dst
    IN  IF Glob(d1) # {}
        THEN [dst |-> d1, err |-> "ValueError"]
        ELSE [dst |-> [d1 EXCEPT !.tree = CopyLoop(d1.tree, src, ord, 1)], err |-> NoError]

CopyInit ==
    /\ dPc = "call"
    /\ source \in {DirState(TRUE, FALSE, EmptyTree)} \cup {DirState(TRUE, TRUE, t) : t \in Trees}
    /\ destination \in DirStates
    /\ destination0 = destination
    /\ dErr = NoError

CopyIdle ==
    /\ dPc = "idle"
    /\ source = DirState(TRUE, FALSE, EmptyTree)
    /\ destination = DirState(TRUE, FALSE, EmptyTree)
    /\ destination0 = destination
    /\ dErr = NoError

CopyDirectory ==
    /\ dPc = "call"
    /\ \E ord \in Orders(Glob(source)) :
          LET r == copy_directory(source, destination, ord)
          IN  /\ destination' = r.dst
              /\ dErr' = r.err
    /\ dPc' = "returned"
    /\ UNCHANGED <<source, destination0, convVars, updVars, tempVars, loopVars>>

-----------------------------------------------------------------------------
(* run_in_loop                                                              *)

MaxTasks   == 4
NumResults == 2

TaskIds  == 1..MaxTasks
FTask    == 1          \* the task run_until_complete(f) wraps f in
Results  == 1..NumResults
NoResult == 0

\* asyncio.all_tasks(loop): the tasks of the loop that are not done.
AllTasks(ts) == {t \in TaskIds : ts[t] = "pending"}

\* The future of asyncio.gather(*pending) is still pending: no gathered task
\* has raised and one of them has not finished.
GatherPending(ts, ps) ==
    /\ \A t \in ps : ts[t] # "failed"
    /\ \E t \in ps : ts[t] = "pending"

\* The loop runs: inside one of the two run_until_complete calls, whose future
\* is not done yet.
LoopRunning ==
    \/ lPc = "run_f" /\ tasks[FTask] = "pending"
    \/ lPc = "gather" /\ GatherPending(tasks, pending)

LoopInit ==
    /\ lPc = "call"
    /\ tasks \in [TaskIds -> {"unused", "pending"}]
    /\ tasks[FTask] = "unused"
    /\ fResult = NoResult
    /\ result = NoResult
    /\ pending = {}
    /\ lRet = NoResult

LoopIdle ==
    /\ lPc = "idle"
    /\ tasks = [t \in TaskIds |-> "unused"]
    /\ fResult = NoResult
    /\ result = NoResult
    /\ pending = {}
    /\ lRet = NoResult

\* loop.run_until_complete(f) starts: f is wrapped in a task and the loop runs.
RunUntilCompleteF ==
    /\ lPc = "call"
    /\ tasks' = [tasks EXCEPT ![FTask] = "pending"]
    /\ lPc' = "run_f"
    /\ UNCHANGED <<fResult, result, pending, lRet, convVars, updVars, tempVars, copyVars>>

\* A running task schedules a new background task on the loop.
TaskSpawn ==
    /\ LoopRunning
    /\ \E t \in TaskIds, n \in TaskIds \ {FTask} :
          /\ tasks[t] = "pending"
          /\ tasks[n] = "unused"
          /\ tasks' = [tasks EXCEPT ![n] = "pending"]
    /\ UNCHANGED <<lPc, fResult, result, pending, lRet, convVars, updVars, tempVars, copyVars>>

\* A running task finishes with a value.
TaskFinish ==
    /\ LoopRunning
    /\ \E t \in TaskIds :
          /\ tasks[t] = "pending"
          /\ tasks' = [tasks EXCEPT ![t] = "done"]
          /\ IF t = FTask THEN fResult' \in Results ELSE fResult' = fResult
    /\ UNCHANGED <<lPc, result, pending, lRet, convVars, updVars, tempVars, copyVars>>

\* A running task ends with an exception.
TaskFail ==
    /\ LoopRunning
    /\ \E t \in TaskIds :
          /\ tasks[t] = "pending"
          /\ tasks' = [tasks EXCEPT ![t] = "failed"]
    /\ UNCHANGED <<lPc, fResult, result, pending, lRet, convVars, updVars, tempVars, copyVars>>

\* result = loop.run_until_complete(f) returns; pending = asyncio.all_tasks(loop);
\* loop.run_until_complete(asyncio.gather(*pending)) starts.
GatherPendingTasks ==
    /\ lPc = "run_f"
    /\ tasks[FTask] = "done"
    /\ result' = fResult
    /\ pending' = AllTasks(tasks)
    /\ lPc' = "gather"
    /\ UNCHANGED <<tasks, fResult, lRet, convVars, updVars, tempVars, copyVars>>

\* loop.run_until_complete(f) raises what f raised.
RunFRaised ==
    /\ lPc = "run_f"
    /\ tasks[FTask] = "failed"
    /\ lPc' = "raised"
    /\ UNCHANGED <<tasks, fResult, result, pending, lRet, convVars, updVars, tempVars, copyVars>>

\* The gather is complete: `return result`.
ReturnResult ==
    /\ lPc = "gather"
    /\ \A t \in pending : tasks[t] = "done"
    /\ lRet' = result
    /\ lPc' = "returned"
    /\ UNCHANGED <<tasks, fResult, result, pending, convVars, updVars, tempVars, copyVars>>

\* A gathered task raised: run_until_complete(gather) raises it.
GatherRaised ==
    /\ lPc = "gather"
    /\ \E t \in pending : tasks[t] = "failed"
    /\ lPc' = "raised"
    /\ UNCHANGED <<tasks, fResult, result, pending, lRet, convVars, updVars, tempVars, copyVars>>

-----------------------------------------------------------------------------
(* Specifications                                                           *)

InitConvert == ConvInit /\ UpdIdle /\ TempIdle /\ CopyIdle /\ LoopIdle
NextConvert == Convert
SpecConvert == InitConvert /\ [][NextConvert]_vars

InitUpdate == UpdInit /\ ConvIdle /\ TempIdle /\ CopyIdle /\ LoopIdle
NextUpdate == Update
SpecUpdate == InitUpdate /\ [][NextUpdate]_vars

InitTemp == TempInit /\ ConvIdle /\ UpdIdle /\ CopyIdle /\ LoopIdle
NextTemp ==
    \/ TempEnter
    \/ TempBodyWrite
    \/ TempBodyRemoveDir
    \/ TempBodyMakeDir
    \/ TempLeave
SpecTemp == InitTemp /\ [][NextTemp]_vars

InitCopy == CopyInit /\ ConvIdle /\ UpdIdle /\ TempIdle /\ LoopIdle
NextCopy == CopyDirectory
SpecCopy == InitCopy /\ [][NextCopy]_vars

InitLoop == LoopInit /\ ConvIdle /\ UpdIdle /\ TempIdle /\ CopyIdle
NextLoop ==
    \/ RunUntilCompleteF
    \/ TaskSpawn
    \/ TaskFinish
    \/ TaskFail
    \/ GatherPendingTasks
    \/ RunFRaised
    \/ ReturnResult
    \/ GatherRaised
SpecLoop == InitLoop /\ [][NextLoop]_vars

-----------------------------------------------------------------------------
(* C1: convert_user_message returns [] for None and a list of exactly one   *)
(* Message for a user message; the returned list never has more than one    *)
(* element.                                                                 *)
C1_OneOrNone ==
    cPc = "returned" =>
        /\ (message0 = None => cRet = << >>)
        /\ (message0 # None => Len(cRet) = 1 /\ cRet[1] = Message(cRet[1].data))
        /\ Len(cRet) <= 1

C1_WitnessNone == cPc = "returned" /\ message0 = None /\ cRet = << >>
C1_WitnessSome == cPc = "returned" /\ message0 # None /\ Len(cRet) = 1

(* C2: the Message produced carries the text, message_id and metadata of    *)
(* the user message unchanged, and the user message is not modified.        *)
C2_FieldsUnchanged ==
    (cPc = "returned" /\ message0 # None) =>
        /\ Len(cRet) = 1
        /\ cRet[1].data.text = message0[1].text
        /\ cRet[1].data.message_id = message0[1].message_id
        /\ cRet[1].data.metadata = message0[1].metadata
        /\ message = message0

C2_Witness ==
    /\ cPc = "returned"
    /\ message0 # None
    /\ message0[1].metadata # << >>
    /\ message0[1].text # message0[1].message_id
    /\ cRet[1].data.metadata = message0[1].metadata

C3_CleanedUp ==
    tPc = "left" =>
        /\ ~PathExists(tDir)
        /\ tSeen = tRaised

C3_Witness ==
    /\ tPc = "left"
    /\ tDirAtExit # None
    /\ Listing(tDirAtExit[1]) # {}
    /\ tRaised # None
    /\ tSeen = tRaised

C3_WitnessNormal == tPc = "left" /\ tDirAtExit # None /\ tRaised = None /\ tDir = None

(* C5: copy_directory raises ValueError whenever destination already has an *)
(* entry, and then destination is unchanged; a missing destination is       *)
(* created; an empty or missing destination gives no error and afterwards   *)
(* holds every top-level file and directory of source.                      *)
C5_CopyDirectory ==
    dPc = "returned" =>
        /\ (Glob(destination0) # {} => dErr = "ValueError" /\ destination = destination0)
        /\ (~destination0.exists => destination.exists)
        /\ (Glob(destination0) = {} =>
                /\ dErr = NoError
                /\ destination.exists
                /\ \A n \in Glob(source) : destination.tree[n] = source.tree[n])

C5_Witness ==
    /\ dPc = "returned"
    /\ ~destination0.exists
    /\ ~destination0.parent
    /\ dErr = NoError
    /\ \E n, m \in Glob(source) : source.tree[n].kind = "dir" /\ source.tree[m].kind = "file"
    /\ \A n \in Glob(source) : destination.tree[n] = source.tree[n]

C5_WitnessRaise == dPc = "returned" /\ Glob(destination0) # {} /\ Glob(source) # {} /\ dErr = "ValueError"

(* C4: run_in_loop returns the result of f, and when it returns no          *)
(* background task scheduled on the loop is still pending.                  *)
C4_NoPendingAtReturn ==
    lPc = "returned" =>
        /\ lRet = fResult
        /\ \A t \in TaskIds : tasks[t] # "pending"

\* The parts of C4 the code does guarantee: the value returned is f's, and
\* every task that was pending when f finished is done.
C4_GatheredDone ==
    lPc = "returned" =>
        /\ lRet = fResult
        /\ lRet \in Results
        /\ \A t \in pending : tasks[t] = "done"

C4_WitnessGathered == lPc = "returned" /\ pending # {} /\ \A t \in TaskIds : tasks[t] # "pending"

====
